---- MODULE Spec2Model ----
(***************************************************************************)
(* A model of tsut (thoughtspot/user_tools): the UsersAndGroups container  *)
(* of tsut/model.py and SyncUserAndGroups.sync_users_and_groups of         *)
(* tsut/api.py with the transport requests it issues.                      *)
(*                                                                         *)
(* One invocation of sync_users_and_groups is a process whose position is  *)
(* pc; each action is one step of it up to and including the next          *)
(* transport request, whose outcome the remote side chooses.               *)
(***************************************************************************)
EXTENDS Integers, Sequences, FiniteSets, TLC

(***************************************************************************)
(* Bounds of the model.                                                    *)
(***************************************************************************)
\* Most users a container passed to the sync holds.
MaxUsers == 3
\* Largest batch_size tried (the smallest is -1, the code's default).
MaxBatch == 2
\* How many privileges of Privileges.AllPrivileges, from its head, are used.
NumPrivs == 2
\* Most groups a container passed to _set_group_privileges alone holds.
MaxGroups == 3
\* Longest groupNames list the container operations build.
MaxNames == 2

(***************************************************************************)
(* Sequence helpers (Python list operations).                              *)
(***************************************************************************)
\* x in list
Contains(s, x) == \E i \in 1..Len(s) : s[i] = x

\* the set of a list's elements
Range(s) == {s[i] : i \in 1..Len(s)}

\* list[:n]
Take(s, n) == SubSeq(s, 1, IF n < Len(s) THEN n ELSE Len(s))

\* del list[:n]
Drop(s, n) == SubSeq(s, (IF n < Len(s) THEN n ELSE Len(s)) + 1, Len(s))

\* [f(x) for x in s if p(x)]
RECURSIVE SelectIdx(_, _, _)
SelectIdx(s, keep, i) ==
    IF i > Len(s) THEN <<>>
    ELSE (IF i \in keep THEN <<s[i]>> ELSE <<>>) \o SelectIdx(s, keep, i + 1)

\* every ordering of a finite set, as sequences without repetition
Perms(S) ==
    {p \in [1..Cardinality(S) -> S] : \A i, j \in 1..Cardinality(S) : p[i] = p[j] => i = j}

(***************************************************************************)
(* tsut/model.py: User, Group.                                             *)
(***************************************************************************)
\* A lower() that changes nothing.
Lower_identity(name) == name

\* str.lower() on the names the model uses.
Lower(name) ==
    CASE name = "U2" -> "u2"
      [] OTHER -> name

\* str.strip() on the names the model uses.
Strip(name) ==
    CASE name = " u2 " -> "u2"
      [] name = " " -> ""
      [] OTHER -> name

\* Python's None as the value of an attribute or of a missing JSON key.  (A
\* password that is None and one that is "" are both "": the code only tests
\* its truth value.)
Null == "<None>"

\* Visibility.DEFAULT, Visibility.NON_SHAREABLE
DEFAULT == "DEFAULT"
NON_SHAREABLE == "NON_SHARABLE"

\* `display_name if not None else name`: `not None` is True, so the value is
\* display_name, whatever it is.
display_name_or(display_name, name) == display_name

\* User.__init__: the name is stripped, groupNames is a fresh list holding
\* group_names in order (None gives the empty list).  mail, created and id
\* are stored and never read; the model leaves them out.
User_init(name, password, display_name, group_names, visibility) ==
    [principalTypeEnum |-> "LOCAL_USER", name |-> Strip(name),
     displayName |-> display_name_or(display_name, name), password |-> password,
     groupNames |-> group_names, visibility |-> visibility]

\* Group.__init__; privileges None and [] are both <<>> (the code only tests
\* its truth value and membership).  description and created are left out.
Group_init(name, display_name, group_names, visibility, privileges) ==
    [principalTypeEnum |-> "LOCAL_GROUP", name |-> Strip(name),
     displayName |-> display_name_or(display_name, name),
     groupNames |-> group_names, visibility |-> visibility,
     privileges |-> privileges]

\* User(name=, password=, group_names=): the other arguments at their defaults.
User(name, password, group_names) ==
    User_init(name, password, Null, group_names, DEFAULT)

\* Group(name=, group_names=, privileges=): the other arguments at their defaults.
Group(name, group_names, privileges) ==
    Group_init(name, Null, group_names, DEFAULT, privileges)

(***************************************************************************)
(* tsut/model.py: UsersAndGroups.  An OrderedDict is a sequence of         *)
(* [key, val] entries in insertion order, no key twice.                    *)
(***************************************************************************)
RAISE_ERROR_ON_DUPLICATE == 0
IGNORE_ON_DUPLICATE == 1
OVERWRITE_ON_DUPLICATE == 2
UPDATE_ON_DUPLICATE == 3

\* A default that keeps the old entry silently.
default_duplicate_ignore == IGNORE_ON_DUPLICATE

\* duplicate=RAISE_ERROR_ON_DUPLICATE: the policy of add_user and add_group
\* when the caller gives none.
default_duplicate == RAISE_ERROR_ON_DUPLICATE

\* UsersAndGroups()
EmptyUGs == [users |-> <<>>, groups |-> <<>>]

\* key in d
HasKey(d, k) == \E i \in 1..Len(d) : d[i].key = k

\* the position of key k in d (k is a key of d)
KeyIndex(d, k) == CHOOSE i \in 1..Len(d) : d[i].key = k

\* An assignment that leaves a present key alone.
DictSet_setdefault(d, k, v) ==
    IF HasKey(d, k) THEN d ELSE Append(d, [key |-> k, val |-> v])

\* d[k] = v: a present key keeps its place, a new key goes last.
DictSet(d, k, v) ==
    IF HasKey(d, k)
    THEN [d EXCEPT ![KeyIndex(d, k)] = [key |-> k, val |-> v]]
    ELSE Append(d, [key |-> k, val |-> v])

\* d.pop(k, None)
DictPop(d, k) == SelectIdx(d, {i \in 1..Len(d) : d[i].key # k}, 1)

\* list(d.values())
Values(d) == [i \in 1..Len(d) |-> d[i].val]

\* The value None: get_user and get_group return it for a missing key.
None == [name |-> "<None>"]

has_user(c, user_name) == HasKey(c.users, Lower(user_name))

get_user(c, user_name) ==
    IF HasKey(c.users, Lower(user_name))
    THEN c.users[KeyIndex(c.users, Lower(user_name))].val
    ELSE None

has_group(c, group_name) == HasKey(c.groups, group_name)

get_group(c, group_name) ==
    IF HasKey(c.groups, group_name)
    THEN c.groups[KeyIndex(c.groups, group_name)].val
    ELSE None

get_users(c) == Values(c.users)

get_groups(c) == Values(c.groups)

number_users(c) == Len(c.users)

number_groups(c) == Len(c.groups)

\* An add_user whose update keeps the new user's groupNames only.
add_user_update_replaces(c, u, duplicate) ==
    LET l_username == Lower(u.name)
        user == get_user(c, l_username)
    IN  IF user = None
        THEN [ugs |-> [c EXCEPT !.users = DictSet(c.users, l_username, u)], err |-> ""]
        ELSE CASE duplicate = RAISE_ERROR_ON_DUPLICATE ->
                    [ugs |-> c, err |-> "Duplicate user"]
               [] duplicate = IGNORE_ON_DUPLICATE ->
                    [ugs |-> c, err |-> ""]
               [] duplicate \in {OVERWRITE_ON_DUPLICATE, UPDATE_ON_DUPLICATE} ->
                    [ugs |-> [c EXCEPT !.users = DictSet(c.users, l_username, u)],
                     err |-> ""]
               [] OTHER ->
                    [ugs |-> c, err |-> "Unknown duplication rule"]

\* add_user(u, duplicate): the container afterwards and the error raised
\* ("" when none).
add_user(c, u, duplicate) ==
    LET l_username == Lower(u.name)
        user == get_user(c, l_username)
    IN  IF user = None
        THEN [ugs |-> [c EXCEPT !.users = DictSet(c.users, l_username, u)], err |-> ""]
        ELSE CASE duplicate = RAISE_ERROR_ON_DUPLICATE ->
                    [ugs |-> c, err |-> "Duplicate user"]
               [] duplicate = IGNORE_ON_DUPLICATE ->
                    [ugs |-> c, err |-> ""]
               [] duplicate = OVERWRITE_ON_DUPLICATE ->
                    [ugs |-> [c EXCEPT !.users = DictSet(c.users, l_username, u)],
                     err |-> ""]
               [] duplicate = UPDATE_ON_DUPLICATE ->
                    [ugs |-> [c EXCEPT !.users =
                                DictSet(c.users, l_username,
                                        [u EXCEPT !.groupNames = u.groupNames \o user.groupNames])],
                     err |-> ""]
               [] OTHER ->
                    [ugs |-> c, err |-> "Unknown duplication rule"]

\* An add_group whose ignore stores the new group.
add_group_ignore_stores(c, g, duplicate) ==
    IF g = None
    THEN [ugs |-> c, err |-> "AttributeError"]
    ELSE
    LET group == get_group(c, g.name)
    IN  IF group = None
        THEN [ugs |-> [c EXCEPT !.groups = DictSet(c.groups, g.name, g)], err |-> ""]
        ELSE CASE duplicate = RAISE_ERROR_ON_DUPLICATE ->
                    [ugs |-> c, err |-> "Duplicate group"]
               [] duplicate \in {IGNORE_ON_DUPLICATE, OVERWRITE_ON_DUPLICATE} ->
                    [ugs |-> [c EXCEPT !.groups = DictSet(c.groups, g.name, g)],
                     err |-> ""]
               [] duplicate = UPDATE_ON_DUPLICATE ->
                    [ugs |-> [c EXCEPT !.groups =
                                DictSet(c.groups, g.name,
                                        [group EXCEPT !.groupNames = group.groupNames \o g.groupNames])],
                     err |-> ""]
               [] OTHER ->
                    [ugs |-> c, err |-> "Unknown duplication rule"]

\* add_group(g, duplicate); g = None fails on g.name with an AttributeError.
add_group(c, g, duplicate) ==
    IF g = None
    THEN [ugs |-> c, err |-> "AttributeError"]
    ELSE
    LET group == get_group(c, g.name)
    IN  IF group = None
        THEN [ugs |-> [c EXCEPT !.groups = DictSet(c.groups, g.name, g)], err |-> ""]
        ELSE CASE duplicate = RAISE_ERROR_ON_DUPLICATE ->
                    [ugs |-> c, err |-> "Duplicate group"]
               [] duplicate = IGNORE_ON_DUPLICATE ->
                    [ugs |-> c, err |-> ""]
               [] duplicate = OVERWRITE_ON_DUPLICATE ->
                    [ugs |-> [c EXCEPT !.groups = DictSet(c.groups, g.name, g)],
                     err |-> ""]
               [] duplicate = UPDATE_ON_DUPLICATE ->
                    [ugs |-> [c EXCEPT !.groups =
                                DictSet(c.groups, g.name,
                                        [group EXCEPT !.groupNames = group.groupNames \o g.groupNames])],
                     err |-> ""]
               [] OTHER ->
                    [ugs |-> c, err |-> "Unknown duplication rule"]

\* is_valid(): the issues, users' before groups', one per dangling reference
\* in list order; [who, ref] stands for the issue's text.
RECURSIVE IssuesOf(_, _, _, _)
IssuesOf(c, kind, owners, i) ==
    IF i > Len(owners) THEN <<>>
    ELSE LET o == owners[i]
             bad == {j \in 1..Len(o.groupNames) : ~HasKey(c.groups, o.groupNames[j])}
             mine == [j \in 1..Len(o.groupNames) |->
                        [kind |-> kind, who |-> o.name, ref |-> o.groupNames[j]]]
         IN  SelectIdx(mine, bad, 1) \o IssuesOf(c, kind, owners, i + 1)

\* An is_valid that stops at the first issue.
is_valid_stops_early(c) ==
    LET issues == IssuesOf(c, "user", Values(c.users), 1)
                    \o IssuesOf(c, "group", Values(c.groups), 1)
    IN  [result |-> issues = <<>>, issues |-> Take(issues, 1)]

is_valid(c) ==
    LET issues == IssuesOf(c, "user", Values(c.users), 1)
                    \o IssuesOf(c, "group", Values(c.groups), 1)
    IN  [result |-> issues = <<>>, issues |-> issues]

\* remove_user(user_name): self.users.pop(user_name.lower(), None)
remove_user(c, user_name) == [c EXCEPT !.users = DictPop(c.users, Lower(user_name))]

\* remove_group(group_name): self.groups.pop(group_name, None)
remove_group(c, group_name) == [c EXCEPT !.groups = DictPop(c.groups, group_name)]

\* User.add_group(group_name): appended only if not in groupNames.
User_add_group(u, group_name) ==
    IF Contains(u.groupNames, group_name) THEN u
    ELSE [u EXCEPT !.groupNames = Append(u.groupNames, group_name)]

\* Group.add_group(group_name): appended only if not in groupNames.
Group_add_group(g, group_name) ==
    IF Contains(g.groupNames, group_name) THEN g
    ELSE [g EXCEPT !.groupNames = Append(g.groupNames, group_name)]

\* str.endswith on the principalTypeEnum values the model uses.
EndsWith(type, suffix) ==
    CASE suffix = "_GROUP" -> type \in {"LOCAL_GROUP", "TENANT_GROUP"}
      [] suffix = "_USER"  -> type \in {"LOCAL_USER"}
      [] OTHER -> FALSE

\* json_obj.get(key, default)
JsonGet(json_obj, key, default) ==
    IF key \in DOMAIN json_obj THEN json_obj[key] ELSE default

\* User.create_from_json: a missing key is None; a missing name makes
\* User.__init__ raise (None has no strip).
User_create_from_json(json_obj) ==
    IF "name" \notin DOMAIN json_obj THEN [ent |-> None, err |-> "AttributeError"]
    ELSE [ent |-> User_init(json_obj["name"], JsonGet(json_obj, "password", ""),
                            JsonGet(json_obj, "displayName", Null),
                            JsonGet(json_obj, "groupNames", <<>>),
                            JsonGet(json_obj, "visibility", Null)),
          err |-> ""]

\* Group.create_from_json: it passes no privileges.
Group_create_from_json(json_obj) ==
    IF "name" \notin DOMAIN json_obj THEN [ent |-> None, err |-> "AttributeError"]
    ELSE [ent |-> Group_init(json_obj["name"], JsonGet(json_obj, "displayName", Null),
                             JsonGet(json_obj, "groupNames", <<>>),
                             JsonGet(json_obj, "visibility", Null), <<>>),
          err |-> ""]

\* load_from_json: the objects are added in order under the default policy;
\* an object whose type ends in neither suffix is reported and skipped; an
\* object without a type makes type.endswith raise (type is None).  An
\* error ends the load with the earlier objects added.
RECURSIVE load_from_json(_, _, _)
load_from_json(c, ug_json, i) ==
    IF i > Len(ug_json) THEN [ugs |-> c, err |-> ""]
    ELSE LET obj == ug_json[i]
             type == JsonGet(obj, "principalTypeEnum", Null)
             group == Group_create_from_json(obj)
             user == User_create_from_json(obj)
             r == IF type = Null THEN [ugs |-> c, err |-> "AttributeError"]
                  ELSE IF EndsWith(type, "_GROUP")
                  THEN IF group.err # "" THEN [ugs |-> c, err |-> group.err]
                       ELSE add_group(c, group.ent, default_duplicate)
                  ELSE IF EndsWith(type, "_USER")
                  THEN IF user.err # "" THEN [ugs |-> c, err |-> user.err]
                       ELSE add_user(c, user.ent, default_duplicate)
                  ELSE [ugs |-> c, err |-> ""]
         IN  IF r.err # "" THEN r ELSE load_from_json(r.ugs, ug_json, i + 1)

\* if not value: continue -- the values obj_to_json leaves out.
Falsy(name, value) ==
    IF name \in {"groupNames", "privileges"} THEN value = <<>>
    ELSE value \in {"", Null}

\* obj_to_json: the public attributes of the object whose value is truthy.
obj_to_json(obj) ==
    [name \in {n \in DOMAIN obj : ~Falsy(n, obj[n])} |-> obj[name]]

\* to_json: the groups in order, then the users in order.
to_json(c) ==
    [i \in 1..(Len(c.groups) + Len(c.users)) |->
        IF i <= Len(c.groups) THEN obj_to_json(c.groups[i].val)
        ELSE obj_to_json(c.users[i - Len(c.groups)].val)]

(***************************************************************************)
(* tsut/api.py: Privileges.                                                *)
(***************************************************************************)
AllPrivileges ==
    << "BYPASSRLS", "JOBSCHEDULING", "DEVELOPER", "DATAMANAGEMENT",
       "USERDATAUPLOADING", "EXPERIMENTALFEATUREPRIVILEGE", "A3ANALYSIS",
       "ADMINISTRATION", "RANALYSIS", "DATADOWNLOADING", "SHAREWITHALL" >>

\* The privileges the model iterates over: the head of AllPrivileges.
PrivilegeList == Take(AllPrivileges, NumPrivs)

\* A list of system groups that forgets Administrator.
SystemGroupsAllOnly == {"All"}

\* The group names _set_group_privileges leaves alone.
SystemGroups == {"All", "Administrator"}

(***************************************************************************)
(* tsut/api.py: the reconciliation of sync_users_and_groups.               *)
(***************************************************************************)
\* __add_all_user_groups: the set of the group names the new users use.
new_user_groups(new_ugs) ==
    UNION {Range(new_ugs.users[i].val.groupNames) : i \in 1..Len(new_ugs.users)}

\* An __add_all_user_groups that never looks at the original container.
RECURSIVE add_all_user_groups_placeholders(_, _, _, _)
add_all_user_groups_placeholders(original_ugs, new_ugs, order, i) ==
    IF i > Len(order) THEN new_ugs
    ELSE add_all_user_groups_placeholders(
             original_ugs,
             add_group(new_ugs, Group_init(order[i], order[i], <<>>, DEFAULT, <<>>),
                       IGNORE_ON_DUPLICATE).ugs,
             order, i + 1)

\* __add_all_user_groups, its loop over new_user_groups taken in the order
\* `order` (a Python set iterates in an order the run decides).
RECURSIVE add_all_user_groups(_, _, _, _)
add_all_user_groups(original_ugs, new_ugs, order, i) ==
    IF i > Len(order) THEN new_ugs
    ELSE LET group_name == order[i]
             old_group == get_group(original_ugs, group_name)
             added ==
                IF get_group(new_ugs, group_name) # None THEN new_ugs
                ELSE IF old_group # None
                     THEN add_group(new_ugs, old_group, IGNORE_ON_DUPLICATE).ugs
                     ELSE add_group(new_ugs,
                                    Group_init(group_name, group_name, <<>>, DEFAULT, <<>>),
                                    IGNORE_ON_DUPLICATE).ugs
         IN  add_all_user_groups(original_ugs, added, order, i + 1)

\* An inner loop that keeps the definition new_ugs already has.
RECURSIVE merge_user_groups_keeps(_, _, _, _)
merge_user_groups_keeps(original_ugs, new_ugs, names, j) ==
    IF j > Len(names) THEN new_ugs
    ELSE LET group == get_group(original_ugs, names[j])
             added ==
                IF group # None
                THEN add_group(new_ugs, group, IGNORE_ON_DUPLICATE).ugs
                ELSE new_ugs
         IN  merge_user_groups_keeps(original_ugs, added, names, j + 1)

\* __merge_groups_into_new, the inner loop: every group of the user's names
\* the original defines is put into new_ugs, overwriting.
RECURSIVE merge_user_groups(_, _, _, _)
merge_user_groups(original_ugs, new_ugs, names, j) ==
    IF j > Len(names) THEN new_ugs
    ELSE LET group == get_group(original_ugs, names[j])
             added ==
                IF group # None
                THEN add_group(new_ugs, group, OVERWRITE_ON_DUPLICATE).ugs
                ELSE new_ugs
         IN  merge_user_groups(original_ugs, added, names, j + 1)

\* __merge_groups_into_new, the loop over new_ugs.get_users(): the user
\* object in the container gets the original user's groupNames appended.
RECURSIVE merge_groups_into_new(_, _, _, _)
merge_groups_into_new(original_ugs, new_ugs, users, i) ==
    IF i > Len(users) THEN new_ugs
    ELSE LET new_user == users[i]
             original_user == get_user(original_ugs, new_user.name)
         IN  IF original_user = None
             THEN merge_groups_into_new(original_ugs, new_ugs, users, i + 1)
             ELSE LET names == new_user.groupNames \o original_user.groupNames
                      extended ==
                        [new_ugs EXCEPT !.users =
                            DictSet(new_ugs.users, Lower(new_user.name),
                                    [new_user EXCEPT !.groupNames = names])]
                  IN  merge_groups_into_new(
                          original_ugs,
                          merge_user_groups(original_ugs, extended, names, 1),
                          users, i + 1)

(***************************************************************************)
(* tsut/api.py: the batch of sync_users_and_groups.                        *)
(***************************************************************************)
\* for group_name in user.groupNames: ug_batch.add_group(get_group(..), IGNORE)
RECURSIVE batch_add_groups(_, _, _, _)
batch_add_groups(users_and_groups, ug_batch, names, j) ==
    IF j > Len(names) THEN [ugs |-> ug_batch, err |-> ""]
    ELSE LET r == add_group(ug_batch, get_group(users_and_groups, names[j]),
                            IGNORE_ON_DUPLICATE)
         IN  IF r.err # "" THEN r
             ELSE batch_add_groups(users_and_groups, r.ugs, names, j + 1)

\* for user in user_batch: add the user, then the user's groups.
RECURSIVE build_batch(_, _, _, _)
build_batch(users_and_groups, ug_batch, user_batch, i) ==
    IF i > Len(user_batch) THEN [ugs |-> ug_batch, err |-> ""]
    ELSE LET user == user_batch[i]
             r == add_user(ug_batch, get_user(users_and_groups, user.name),
                           RAISE_ERROR_ON_DUPLICATE)
         IN  IF r.err # "" THEN r
             ELSE LET g == batch_add_groups(users_and_groups, r.ugs, user.groupNames, 1)
                  IN  IF g.err # "" THEN g
                      ELSE build_batch(users_and_groups, g.ugs, user_batch, i + 1)

(***************************************************************************)
(* tsut/api.py: _set_group_privileges, the lists it computes.              *)
(***************************************************************************)
\* The names of the groups that are not system groups, in container order.
candidate_groups(users_and_groups) ==
    LET gs == get_groups(users_and_groups)
        names == [i \in 1..Len(gs) |-> gs[i].name]
    IN  SelectIdx(names, {i \in 1..Len(gs) : gs[i].name \notin SystemGroups}, 1)

\* A mapping that gives every candidate the privilege.
groups_with_priv_all(users_and_groups, names, priv) == names

\* A mapping that stops at the first candidate that has the privilege.
groups_with_priv_first(users_and_groups, names, priv) ==
    Take(SelectIdx(names,
                   {i \in 1..Len(names) :
                       Contains(get_group(users_and_groups, names[i]).privileges, priv)},
                   1),
         1)

\* The candidates whose privileges hold priv, in candidate order.
groups_with_priv(users_and_groups, names, priv) ==
    SelectIdx(names,
              {i \in 1..Len(names) :
                  Contains(get_group(users_and_groups, names[i]).privileges, priv)},
              1)

(***************************************************************************)
(* The state of one SyncUserAndGroups instance and of the call in flight.  *)
(***************************************************************************)
VARIABLES
    ugs,          \* users_and_groups: the caller's container (the reconciliation changes it)
    passed,       \* the container as the caller passed it
    remote,       \* the users and groups get-all answers with
    remotePrivs,  \* the remote side: group name -> the privileges the group holds
    remotePrivs0, \* remotePrivs when the call started
    before,       \* the container before the last operation on it
    call,         \* the last operation on the container: its name, arguments, error
    args,         \* the arguments of the call
    entry,        \* the method the caller invoked: "sync" or "privileges"
    pc,           \* the position of the call
    err,          \* the exception that left the call ("" when none)
    cookies,      \* self.cookies is not None (the instance is authenticated)
    privCookies,  \* the same for the SetGroupPrivilegesAPI instance of the privilege stage
    log,          \* the requests sent to the remote side, in order
    priv_calls,   \* the calls of remove_privilege / add_privilege, in order
    printed,      \* the operations _set_group_privileges printed, in order
    all_users,    \* the batch loop's list of users still to send
    ug_batch,     \* the batch loop's container of the batch built last
    group_names,  \* _set_group_privileges: the candidate group names
    idx,          \* _set_group_privileges: the index of priv in AllPrivileges
    pw_users      \* the password loop's users still to visit

vars == << ugs, passed, remote, remotePrivs, remotePrivs0, before, call, args, entry, pc, err,
           cookies, privCookies, log, priv_calls, printed, all_users,
           ug_batch, group_names, idx, pw_users >>

\* A request on the wire.  api is the instance that sent it ("sync": the
\* SyncUserAndGroups instance, "priv": the SetGroupPrivilegesAPI instance),
\* res the remote side's answer.
Req(api, op, res, users, groups, privilege, applyChanges, removeDeleted) ==
    [api |-> api, op |-> op, res |-> res, users |-> users, groups |-> groups,
     privilege |-> privilege, applyChanges |-> applyChanges,
     removeDeleted |-> removeDeleted]

LoginReq(api, ok) ==
    Req(api, "login", IF ok THEN "ok" ELSE "fail", <<>>, <<>>, "", FALSE, FALSE)

\* An api_call that logs in before every call.
api_call_login_always(authenticated, loginOk) ==
    << [api |-> "sync", op |-> "login", res |-> IF loginOk THEN "ok" ELSE "fail",
        users |-> <<>>, groups |-> <<>>, privilege |-> "", applyChanges |-> FALSE,
        removeDeleted |-> FALSE] >>

\* api_call: the login it sends first when the instance is not authenticated.
api_call_login(authenticated, loginOk) ==
    IF authenticated THEN <<>> ELSE << LoginReq("sync", loginOk) >>

\* The answers a login can get: none is asked for when authenticated.
LoginAnswers(authenticated) == IF authenticated THEN {TRUE} ELSE BOOLEAN

\* The names of a list of users or groups.
Names(s) == [i \in 1..Len(s) |-> s[i].name]

(***************************************************************************)
(* sync_users_and_groups, step by step.                                    *)
(***************************************************************************)
\* A guard that lets batch_size = 1 through.
guard_rejects_above_one(a) == a.remove_deleted /\ a.batch_size > 1

\* The guard: remove_deleted and batch_size > 0 cannot go together.
guard_rejects(a) == a.remove_deleted /\ a.batch_size > 0

\* A fetch that forgets merge_groups.
needs_existing_create_only(a) == a.create_groups

\* existing_ugs is fetched only for create_groups or merge_groups.
needs_existing(a) == a.create_groups \/ a.merge_groups

Guard ==
    /\ pc = "start"
    /\ IF guard_rejects(args)
       THEN pc' = "raised" /\ err' = "config"
       ELSE pc' = "fetch" /\ err' = err
    /\ UNCHANGED << ugs, passed, remote, remotePrivs, remotePrivs0, before, call, args, entry,
                    cookies, privCookies, log, priv_calls, printed, all_users,
                    ug_batch, group_names, idx, pw_users >>

\* The container after the reconciliation against existing_ugs.
reconciled(a, existing_ugs, new_ugs, order) ==
    LET created == IF a.create_groups
                   THEN add_all_user_groups(existing_ugs, new_ugs, order, 1)
                   ELSE new_ugs
    IN  IF a.merge_groups
        THEN merge_groups_into_new(existing_ugs, created, get_users(created), 1)
        ELSE created

\* get_all_users_and_groups (behind api_call) and the reconciliation.
Fetch ==
    /\ pc = "fetch"
    /\ IF ~needs_existing(args)
       THEN /\ pc' = "dispatch"
            /\ UNCHANGED << ugs, err, cookies, log >>
       ELSE \E loginOk \in LoginAnswers(cookies), getOk \in BOOLEAN,
               order \in (IF args.create_groups THEN Perms(new_user_groups(ugs))
                                                ELSE {<<>>}) :
              LET login == api_call_login(cookies, loginOk)
                  get == Req("sync", "get_all", IF getOk THEN "ok" ELSE "fail",
                             <<>>, <<>>, "", FALSE, FALSE)
              IN  IF ~loginOk
                  THEN /\ pc' = "raised" /\ err' = "login"
                       /\ log' = log \o login
                       /\ UNCHANGED << ugs, cookies >>
                  ELSE /\ cookies' = TRUE
                       /\ log' = log \o login \o << get >>
                       /\ IF getOk
                          THEN /\ pc' = "dispatch" /\ err' = err
                               /\ ugs' = reconciled(args, remote, ugs, order)
                          ELSE /\ pc' = "raised" /\ err' = "get_all"
                               /\ ugs' = ugs
    /\ UNCHANGED << passed, remote, remotePrivs, remotePrivs0, before, call, args, entry,
                    privCookies, priv_calls, printed, all_users, ug_batch,
                    group_names, idx, pw_users >>

\* json.dumps of a bool
json_dumps(value) == IF value THEN "true" ELSE "false"

\* Parameters that always ask for the changes to be applied.
sync_params_always_apply(apply_changes, remove_deleted) ==
    [applyChanges |-> "true", removeDeleted |-> IF remove_deleted THEN "true" ELSE "false"]

\* params of _sync_users_and_groups: the two flags as JSON text.
sync_params(apply_changes, remove_deleted) ==
    [applyChanges |-> json_dumps(apply_changes),
     removeDeleted |-> json_dumps(remove_deleted)]

\* A sync call that swallows a failed answer.
sync_call_no_raise(c, a, authenticated, loginOk, postOk) ==
    LET login == api_call_login(authenticated, loginOk)
        post == Req("sync", "sync", IF postOk THEN "ok" ELSE "fail",
                    Names(get_users(c)), Names(get_groups(c)), "",
                    sync_params(a.apply_changes, a.remove_deleted).applyChanges,
                    sync_params(a.apply_changes, a.remove_deleted).removeDeleted)
    IN  IF ~loginOk
        THEN [reqs |-> login, cookies |-> authenticated, err |-> "login"]
        ELSE IF ~is_valid(c).result
        THEN [reqs |-> login, cookies |-> TRUE, err |-> "invalid"]
        ELSE [reqs |-> login \o << post >>, cookies |-> TRUE, err |-> ""]

\* _sync_users_and_groups behind api_call: the login, the validity check,
\* then the sync request.  The requests sent, the cookies and the error.
sync_call(c, a, authenticated, loginOk, postOk) ==
    LET login == api_call_login(authenticated, loginOk)
        post == Req("sync", "sync", IF postOk THEN "ok" ELSE "fail",
                    Names(get_users(c)), Names(get_groups(c)), "",
                    sync_params(a.apply_changes, a.remove_deleted).applyChanges,
                    sync_params(a.apply_changes, a.remove_deleted).removeDeleted)
    IN  IF ~loginOk
        THEN [reqs |-> login, cookies |-> authenticated, err |-> "login"]
        ELSE IF ~is_valid(c).result
        THEN [reqs |-> login, cookies |-> TRUE, err |-> "invalid"]
        ELSE [reqs |-> login \o << post >>, cookies |-> TRUE,
              err |-> IF postOk THEN "" ELSE "sync"]

\* The dispatch: the whole container in one call, or the start of the batch loop.
Dispatch ==
    /\ pc = "dispatch"
    /\ IF args.batch_size > 0
       THEN /\ all_users' = get_users(ugs)
            /\ pc' = "batch"
            /\ UNCHANGED << err, cookies, log >>
       ELSE \E loginOk \in LoginAnswers(cookies), postOk \in BOOLEAN :
              LET r == sync_call(ugs, args, cookies, loginOk, postOk)
              IN  /\ log' = log \o r.reqs
                  /\ cookies' = r.cookies
                  /\ err' = r.err
                  /\ pc' = IF r.err = "" THEN "privileges" ELSE "raised"
                  /\ all_users' = all_users
    /\ UNCHANGED << ugs, passed, remote, remotePrivs, remotePrivs0, before, call, args, entry,
                    privCookies, priv_calls, printed, ug_batch, group_names, idx,
                    pw_users >>

\* A get_users() that hands out the container's own list of users: the
\* container after `del all_users[:n]`.
users_after_del_shared(users, n) == Drop(users, n)

\* get_users() returns list(self.users.values()), a new list: the
\* container's users after `del all_users[:n]` on that list.
users_after_del(users, n) == users

\* One turn of the batch loop: the next batch_size users and their groups
\* go into a new container, which is synced.
BatchStep ==
    /\ pc = "batch"
    /\ IF all_users = <<>>
       THEN /\ pc' = "privileges"
            /\ UNCHANGED << ugs, err, cookies, log, all_users, ug_batch >>
       ELSE \E loginOk \in LoginAnswers(cookies), postOk \in BOOLEAN :
              LET user_batch == Take(all_users, args.batch_size)
                  b == build_batch(ugs, EmptyUGs, user_batch, 1)
                  r == sync_call(b.ugs, args, cookies, loginOk, postOk)
              IN  /\ all_users' = Drop(all_users, args.batch_size)
                  /\ ugs' = [ugs EXCEPT !.users = users_after_del(@, args.batch_size)]
                  /\ ug_batch' = b.ugs
                  /\ IF b.err # ""
                     THEN /\ pc' = "raised" /\ err' = b.err
                          /\ UNCHANGED << cookies, log >>
                     ELSE /\ log' = log \o r.reqs
                          /\ cookies' = r.cookies
                          /\ err' = r.err
                          /\ pc' = IF r.err = "" THEN "batch" ELSE "raised"
    /\ UNCHANGED << passed, remote, remotePrivs, remotePrivs0, before, call, args, entry,
                    privCookies, priv_calls, printed, group_names, idx, pw_users >>

(***************************************************************************)
(* _set_group_privileges, step by step.                                    *)
(***************************************************************************)
\* A call of SetGroupPrivilegesAPI.remove_privilege / add_privilege behind
\* api_call: the requests sent, the instance's cookies and the call's result
\* ("fail": the call raised, from the login or from the request's answer).
priv_call(op, groups, priv, authenticated, loginOk, ok) ==
    LET login == IF authenticated THEN <<>> ELSE << LoginReq("priv", loginOk) >>
        req == Req("priv", op, IF ok THEN "ok" ELSE "fail", <<>>, groups, priv,
                   FALSE, FALSE)
    IN  IF ~loginOk
        THEN [reqs |-> login, cookies |-> authenticated, res |-> "fail"]
        ELSE [reqs |-> login \o << req >>, cookies |-> TRUE,
              res |-> IF ok THEN "ok" ELSE "fail"]

\* What a request the remote side answered with success did there.
remote_apply(rp, op, groups, priv) ==
    [g \in DOMAIN rp |->
        IF g \in Range(groups)
        THEN (IF op = "remove_privilege" THEN rp[g] \ {priv} ELSE rp[g] \cup {priv})
        ELSE rp[g]]

\* A call whose exception is not caught.
after_privilege_call_uncaught(res, next) == IF res = "fail" THEN "raised" ELSE next

\* try: ... except Exception: print(...) around each call: the position
\* after a call with result res, where next is the loop's next position.
after_privilege_call(res, next) == next

\* Calls that are made in a dry run too.
sends_privilege_calls_always(a) == TRUE

\* if apply_changes: the calls are made only when changes are applied.
sends_privilege_calls(a) == a.apply_changes

\* Where _set_group_privileges returns to.
privileges_return == IF entry = "sync" THEN "passwords" ELSE "done"

\* The entry of the privilege stage: the flag, api_call's login, the candidates.
PrivEntry ==
    /\ pc = "privileges"
    /\ IF entry = "sync" /\ ~args.set_group_privileges
       THEN /\ pc' = "passwords"
            /\ UNCHANGED << err, cookies, privCookies, log, group_names, idx >>
       ELSE \E loginOk \in LoginAnswers(cookies) :
              /\ log' = log \o api_call_login(cookies, loginOk)
              /\ IF ~loginOk
                 THEN /\ pc' = "raised" /\ err' = "login"
                      /\ UNCHANGED << cookies, privCookies, group_names, idx >>
                 ELSE /\ cookies' = TRUE
                      /\ err' = err
                      /\ group_names' = candidate_groups(ugs)
                      /\ privCookies' = FALSE
                      /\ idx' = 1
                      /\ pc' = IF candidate_groups(ugs) = <<>>
                               THEN privileges_return ELSE "priv_remove"
    /\ UNCHANGED << ugs, passed, remote, remotePrivs, remotePrivs0, before, call, args, entry,
                    priv_calls, printed, all_users, ug_batch, pw_users >>

\* One turn of the first loop: remove priv from every candidate.
PrivRemove ==
    /\ pc = "priv_remove"
    /\ LET priv == PrivilegeList[idx]
           next == IF idx < Len(PrivilegeList) THEN "priv_remove" ELSE "priv_add"
       IN  /\ printed' = Append(printed, [op |-> "remove_privilege",
                                          privilege |-> priv, groups |-> group_names])
           /\ idx' = IF idx < Len(PrivilegeList) THEN idx + 1 ELSE 1
           /\ IF ~sends_privilege_calls(args)
              THEN /\ pc' = next
                   /\ UNCHANGED << err, privCookies, log, priv_calls, remotePrivs >>
              ELSE \E loginOk \in LoginAnswers(privCookies), ok \in BOOLEAN :
                     LET r == priv_call("remove_privilege", group_names, priv,
                                        privCookies, loginOk, ok)
                     IN  /\ log' = log \o r.reqs
                         /\ privCookies' = r.cookies
                         /\ priv_calls' = Append(priv_calls,
                                [op |-> "remove_privilege", privilege |-> priv,
                                 groups |-> group_names, res |-> r.res])
                         /\ remotePrivs' = IF r.res = "ok"
                                           THEN remote_apply(remotePrivs, "remove_privilege",
                                                             group_names, priv)
                                           ELSE remotePrivs
                         /\ pc' = after_privilege_call(r.res, next)
                         /\ err' = IF after_privilege_call(r.res, next) = "raised"
                                   THEN "privilege" ELSE err
    /\ UNCHANGED << ugs, passed, remote, remotePrivs0, before, call, args, entry, cookies,
                    all_users, ug_batch, group_names, pw_users >>

\* One turn of the second loop: add priv to the candidates that want it.
PrivAdd ==
    /\ pc = "priv_add"
    /\ LET priv == PrivilegeList[idx]
           next == IF idx < Len(PrivilegeList) THEN "priv_add" ELSE privileges_return
           with_priv == groups_with_priv(ugs, group_names, priv)
       IN  /\ idx' = IF idx < Len(PrivilegeList) THEN idx + 1 ELSE 1
           /\ printed' = IF with_priv # <<>>
                         THEN Append(printed, [op |-> "add_privilege",
                                               privilege |-> priv, groups |-> with_priv])
                         ELSE printed
           /\ IF with_priv = <<>> \/ ~sends_privilege_calls(args)
              THEN /\ pc' = next
                   /\ UNCHANGED << err, privCookies, log, priv_calls, remotePrivs >>
              ELSE \E loginOk \in LoginAnswers(privCookies), ok \in BOOLEAN :
                     LET r == priv_call("add_privilege", with_priv, priv,
                                        privCookies, loginOk, ok)
                     IN  /\ log' = log \o r.reqs
                         /\ privCookies' = r.cookies
                         /\ priv_calls' = Append(priv_calls,
                                [op |-> "add_privilege", privilege |-> priv,
                                 groups |-> with_priv, res |-> r.res])
                         /\ remotePrivs' = IF r.res = "ok"
                                           THEN remote_apply(remotePrivs, "add_privilege",
                                                             with_priv, priv)
                                           ELSE remotePrivs
                         /\ pc' = after_privilege_call(r.res, next)
                         /\ err' = IF after_privilege_call(r.res, next) = "raised"
                                   THEN "privilege" ELSE err
    /\ UNCHANGED << ugs, passed, remote, remotePrivs0, before, call, args, entry, cookies,
                    all_users, ug_batch, group_names, pw_users >>

(***************************************************************************)
(* The password pass of sync_users_and_groups.                             *)
(***************************************************************************)
\* A pass that runs in a dry run too.
updates_passwords_in_dry_run(a) == a.update_passwords

\* The pass runs only with update_passwords and apply_changes.
updates_passwords(a) == a.update_passwords /\ a.apply_changes

PwEntry ==
    /\ pc = "passwords"
    /\ IF updates_passwords(args)
       THEN pw_users' = get_users(ugs) /\ pc' = "pw_loop"
       ELSE pw_users' = pw_users /\ pc' = "done"
    /\ UNCHANGED << ugs, passed, remote, remotePrivs, remotePrivs0, before, call, args, entry,
                    err, cookies, privCookies, log, priv_calls, printed,
                    all_users, ug_batch, group_names, idx >>

\* The answers to an update-password request: 204, the 500 that says the
\* password did not change, anything else.
PasswordAnswers == {"ok", "unchanged", "fail"}

\* One turn of the loop over the users: update_user_password (behind
\* api_call) for a user that has a password.
PwStep ==
    /\ pc = "pw_loop"
    /\ IF pw_users = <<>>
       THEN /\ pc' = "done"
            /\ UNCHANGED << err, cookies, log, pw_users >>
       ELSE LET user == Head(pw_users)
            IN  /\ pw_users' = Tail(pw_users)
                /\ IF user.password = ""
                   THEN /\ pc' = "pw_loop"
                        /\ UNCHANGED << err, cookies, log >>
                   ELSE \E loginOk \in LoginAnswers(cookies), res \in PasswordAnswers :
                          LET login == api_call_login(cookies, loginOk)
                              req == Req("sync", "update_password", res, << user.name >>,
                                         <<>>, "", FALSE, FALSE)
                          IN  IF ~loginOk
                              THEN /\ pc' = "raised" /\ err' = "login"
                                   /\ log' = log \o login
                                   /\ cookies' = cookies
                              ELSE /\ cookies' = TRUE
                                   /\ log' = log \o login \o << req >>
                                   /\ pc' = IF res = "fail" THEN "raised" ELSE "pw_loop"
                                   /\ err' = IF res = "fail" THEN "password" ELSE err
    /\ UNCHANGED << ugs, passed, remote, remotePrivs, remotePrivs0, before, call, args, entry,
                    privCookies, priv_calls, printed, all_users, ug_batch, group_names,
                    idx >>

(***************************************************************************)
(* The inputs the calls are tried on.                                      *)
(***************************************************************************)
P1 == AllPrivileges[1]
P2 == AllPrivileges[2]

\* The names of the users, in the order they are added.
UserNameList == << "u1", "U2", "u3", "u4", "u5" >>

\* Every group name the model uses.
GroupUniverse == {"G1", "G2", "G3", "G4", "All", "Administrator"}

\* A container built as a caller builds it: add_group for each group, then
\* add_user for each user.
RECURSIVE AddGroups(_, _, _)
AddGroups(c, groups, i) ==
    IF i > Len(groups) THEN c
    ELSE AddGroups(add_group(c, groups[i], RAISE_ERROR_ON_DUPLICATE).ugs, groups, i + 1)

RECURSIVE AddUsers(_, _, _)
AddUsers(c, users, i) ==
    IF i > Len(users) THEN c
    ELSE AddUsers(add_user(c, users[i], RAISE_ERROR_ON_DUPLICATE).ugs, users, i + 1)

MakeUGs(users, groups) == AddUsers(AddGroups(EmptyUGs, groups, 1), users, 1)

\* The shapes of the containers passed to sync_users_and_groups:
\*   flat      every reference is defined, no group has a parent
\*   nested    valid, and the users' group G1 has the parent G2
\*   dangling  the first user has no group, the others name the undefined G3
\*   orphan    the users are fine; G2, which no user names, has an undefined parent
\*   system    only the system groups
SyncShapes == {"flat", "nested", "dangling", "orphan", "system"}

ShapeUserGroups(shape, i) ==
    CASE shape = "flat"     -> IF i % 2 = 1 THEN << "G1" >> ELSE << "G2", "G1" >>
      [] shape = "nested"   -> << "G1" >>
      [] shape = "dangling" -> IF i = 1 THEN <<>> ELSE << "G3" >>
      [] shape = "orphan"   -> << "G1" >>
      [] shape = "system"   -> << "All" >>

ShapeGroups(shape) ==
    CASE shape = "flat"     -> << Group("G1", <<>>, << P1 >>), Group("All", <<>>, << P2 >>),
                                  Group("G2", <<>>, << P1 >>) >>
      [] shape = "nested"   -> << Group("G1", << "G2" >>, << P2 >>), Group("G2", <<>>, <<>>) >>
      [] shape = "dangling" -> << Group("G1", <<>>, <<>>) >>
      [] shape = "orphan"   -> << Group("G1", <<>>, <<>>), Group("G2", << "G3" >>, << P1 >>) >>
      [] shape = "system"   -> << Group("All", <<>>, << P1 >>),
                                  Group("Administrator", <<>>, << P1, P2 >>) >>

\* n users of a shape; every second user has no password, the others have one.
ShapeUGs(shape, n) ==
    MakeUGs([i \in 1..n |-> User(UserNameList[i], IF i % 2 = 0 THEN "" ELSE "pw",
                                 ShapeUserGroups(shape, i))],
            ShapeGroups(shape))

SyncContainers == {ShapeUGs(shape, n) : shape \in SyncShapes, n \in 0..MaxUsers}

\* What get-all answers: nothing, or two users and three groups, of which G3
\* has the parent G4.  (parse_json gives the groups no privileges.)
RemoteUGs ==
    MakeUGs(<< User("u1", "", << "G3" >>), User("u2", "", << "G1", "G3" >>) >>,
            << Group("G1", <<>>, <<>>), Group("G3", << "G4" >>, <<>>),
               Group("G4", <<>>, <<>>) >>)

SyncRemotes == {EmptyUGs, RemoteUGs}

\* The remote privileges at the start.
RemoteNone == [g \in GroupUniverse |-> {}]
RemoteAll == [g \in GroupUniverse |-> Range(PrivilegeList)]
RemoteMixed == [g \in GroupUniverse |-> IF g \in {"G1", "All"} THEN {P1} ELSE {P2}]

\* The arguments of sync_users_and_groups.
SyncArgs ==
    [apply_changes : BOOLEAN, remove_deleted : BOOLEAN, batch_size : -1..MaxBatch,
     create_groups : BOOLEAN, merge_groups : BOOLEAN,
     set_group_privileges : BOOLEAN, update_passwords : BOOLEAN]

\* No operation on the container yet.
NoCall == [name |-> "", ent |-> None, duplicate |-> default_duplicate,
           given |-> FALSE, arg |-> "", err |-> "", ret |-> None]

\* The state when a call of `method` starts at position start.
Started(method, start, containers, remotes, remoteStarts, argSets, auth) ==
    /\ ugs \in containers
    /\ passed = ugs
    /\ remote \in remotes
    /\ remotePrivs \in remoteStarts
    /\ remotePrivs0 = remotePrivs
    /\ before = ugs
    /\ call = NoCall
    /\ args \in argSets
    /\ entry = method
    /\ pc = start
    /\ err = ""
    /\ cookies \in auth
    /\ privCookies = FALSE
    /\ log = <<>>
    /\ priv_calls = <<>>
    /\ printed = <<>>
    /\ all_users = <<>>
    /\ ug_batch = EmptyUGs
    /\ group_names = <<>>
    /\ idx = 1
    /\ pw_users = <<>>

(***************************************************************************)
(* Spec: one call of sync_users_and_groups, on an instance that is new or  *)
(* was authenticated by an earlier call.                                   *)
(***************************************************************************)
Init ==
    /\ Started("sync", "start", SyncContainers, SyncRemotes, {RemoteMixed}, SyncArgs,
               BOOLEAN)
    /\ (~needs_existing(args) => remote = EmptyUGs)  \* never read otherwise

Next ==
    \/ Guard
    \/ Fetch
    \/ Dispatch
    \/ BatchStep
    \/ PrivEntry
    \/ PrivRemove
    \/ PrivAdd
    \/ PwEntry
    \/ PwStep

Spec == Init /\ [][Next]_vars

(***************************************************************************)
(* SpecPriv: one call of _set_group_privileges on a new instance, for      *)
(* every container of up to MaxGroups groups.                              *)
(***************************************************************************)
\* The names of the groups, in the order they are added.
PrivGroupNames == << "G1", "All", "G2", "Administrator" >>

\* The privileges a group can want; BOGUS is no privilege of AllPrivileges.
PrivChoices == { <<>>, << P1 >>, << P1, P2 >>, << P2, "BOGUS" >> }

\* The elements of a set of indexes into PrivGroupNames, in increasing order.
RECURSIVE InOrder(_)
InOrder(S) ==
    IF S = {} THEN <<>>
    ELSE LET m == CHOOSE x \in S : \A y \in S : x <= y
         IN  << m >> \o InOrder(S \ {m})

PrivContainers ==
    { MakeUGs(<<>>, [i \in 1..Len(InOrder(S)) |->
                        Group(PrivGroupNames[InOrder(S)[i]], <<>>, f[InOrder(S)[i]])]) :
        S \in {T \in SUBSET (1..Len(PrivGroupNames)) : Cardinality(T) <= MaxGroups},
        f \in [1..Len(PrivGroupNames) -> PrivChoices] }

\* The arguments: only apply_changes reaches _set_group_privileges.
PrivArgs ==
    [apply_changes : BOOLEAN, remove_deleted : {FALSE}, batch_size : {-1},
     create_groups : {FALSE}, merge_groups : {FALSE},
     set_group_privileges : {TRUE}, update_passwords : {FALSE}]

InitPriv ==
    Started("privileges", "privileges", PrivContainers, {EmptyUGs},
            {RemoteNone, RemoteAll, RemoteMixed}, PrivArgs, {FALSE})

NextPriv ==
    \/ PrivEntry
    \/ PrivRemove
    \/ PrivAdd

SpecPriv == InitPriv /\ [][NextPriv]_vars

(***************************************************************************)
(* SpecUGs: the operations of a UsersAndGroups container, in any order,    *)
(* from the empty container: add_user, add_group, remove_user,             *)
(* remove_group, load_from_json, is_valid, and add_group on a stored user  *)
(* or group (the container stores the caller's objects, no copies).        *)
(***************************************************************************)
\* The group names users and groups refer to.
UGRefs == {"G1", "G2"}

\* The users a caller constructs: U2 and " u2 " share the key u2.
UGUsers == {User(n, "pw", gs) : n \in {"U2", " u2 "}, gs \in {<<>>, << "G1" >>}}

\* The groups a caller constructs.
UGGroups == {Group("G1", gs, <<>>) : gs \in {<<>>, << "G2" >>}} \cup {Group("G2", <<>>, <<>>)}

\* The duplicate arguments: the four policies and a number that is none.
DuplicateArgs ==
    {RAISE_ERROR_ON_DUPLICATE, IGNORE_ON_DUPLICATE, OVERWRITE_ON_DUPLICATE,
     UPDATE_ON_DUPLICATE, UPDATE_ON_DUPLICATE + 1}

\* The objects of the JSON lists given to load_from_json.
JsonGroup ==
    [principalTypeEnum |-> "LOCAL_GROUP", name |-> "G1", password |-> "",
     groupNames |-> << "G2" >>, visibility |-> DEFAULT]
JsonUser ==
    [principalTypeEnum |-> "LOCAL_USER", name |-> "U2", password |-> "pw",
     groupNames |-> << "G1" >>, visibility |-> DEFAULT]
JsonUserLower ==
    [principalTypeEnum |-> "LOCAL_USER", name |-> " u2 ", password |-> "pw",
     groupNames |-> <<>>, visibility |-> DEFAULT]
JsonOther ==
    [principalTypeEnum |-> "TENANT", name |-> "G2", password |-> "",
     groupNames |-> <<>>]

\* An object without the key principalTypeEnum.
JsonUntyped == [name |-> "G2", password |-> "", groupNames |-> <<>>, visibility |-> DEFAULT]

JsonLists ==
    { <<>>, << JsonGroup >>, << JsonUser, JsonUserLower >>, << JsonOther, JsonGroup >>,
      << JsonUserLower, JsonGroup >>, << JsonGroup, JsonGroup >>,
      << JsonUntyped, JsonGroup >> }

\* No groupNames list of the container is longer than MaxNames.
WithinMaxNames(c) ==
    /\ \A i \in 1..Len(c.users) : Len(c.users[i].val.groupNames) <= MaxNames
    /\ \A i \in 1..Len(c.groups) : Len(c.groups[i].val.groupNames) <= MaxNames

\* The record of a call on the container.
Call(name, ent, duplicate, given, arg, error, ret) ==
    [name |-> name, ent |-> ent, duplicate |-> duplicate, given |-> given,
     arg |-> arg, err |-> error, ret |-> ret]

\* A step of a container operation: c is the container afterwards.
UGStep(c, made) ==
    /\ WithinMaxNames(c)
    /\ ugs' = c
    /\ before' = ugs
    /\ call' = made
    /\ UNCHANGED << passed, remote, remotePrivs, remotePrivs0, args, entry, pc, err,
                    cookies, privCookies, log, priv_calls, printed, all_users,
                    ug_batch, group_names, idx, pw_users >>

AddUser ==
    /\ pc = "ready"
    /\ \E u \in UGUsers, given \in BOOLEAN :
          \E duplicate \in (IF given THEN DuplicateArgs ELSE {default_duplicate}) :
              LET r == add_user(ugs, u, duplicate)
              IN  UGStep(r.ugs, Call("add_user", u, duplicate, given, "", r.err, None))

AddGroup ==
    /\ pc = "ready"
    /\ \E g \in UGGroups, given \in BOOLEAN :
          \E duplicate \in (IF given THEN DuplicateArgs ELSE {default_duplicate}) :
              LET r == add_group(ugs, g, duplicate)
              IN  UGStep(r.ugs, Call("add_group", g, duplicate, given, "", r.err, None))

RemoveUser ==
    /\ pc = "ready"
    /\ \E user_name \in {"U2", "u1"} :
          UGStep(remove_user(ugs, user_name),
                 Call("remove_user", None, default_duplicate, FALSE, user_name, "", None))

RemoveGroup ==
    /\ pc = "ready"
    /\ \E group_name \in UGRefs :
          UGStep(remove_group(ugs, group_name),
                 Call("remove_group", None, default_duplicate, FALSE, group_name, "", None))

\* get_user(user_name).add_group(group_name) on a user of the container.
UserAddGroup ==
    /\ pc = "ready"
    /\ has_user(ugs, "u2")
    /\ \E group_name \in UGRefs :
          UGStep([ugs EXCEPT !.users =
                     DictSet(ugs.users, "u2",
                             User_add_group(get_user(ugs, "u2"), group_name))],
                 Call("User.add_group", get_user(ugs, "u2"), default_duplicate, FALSE,
                      group_name, "", None))

\* get_group(name).add_group(group_name) on a group of the container.
GroupAddGroup ==
    /\ pc = "ready"
    /\ has_group(ugs, "G1")
    /\ \E group_name \in UGRefs :
          UGStep([ugs EXCEPT !.groups =
                     DictSet(ugs.groups, "G1",
                             Group_add_group(get_group(ugs, "G1"), group_name))],
                 Call("Group.add_group", get_group(ugs, "G1"), default_duplicate, FALSE,
                      group_name, "", None))

LoadFromJson ==
    /\ pc = "ready"
    /\ \E ug_json \in JsonLists :
          LET r == load_from_json(ugs, ug_json, 1)
          IN  UGStep(r.ugs, Call("load_from_json", None, default_duplicate, FALSE, "",
                                 r.err, ug_json))

\* is_valid(): it assigns nothing to the container.
IsValid ==
    /\ pc = "ready"
    /\ UGStep(ugs, Call("is_valid", None, default_duplicate, FALSE, "", "", is_valid(ugs)))

InitUGs ==
    Started("container", "ready", {EmptyUGs}, {EmptyUGs}, {RemoteNone},
            {a \in PrivArgs : ~a.apply_changes}, {FALSE})

NextUGs ==
    \/ AddUser
    \/ AddGroup
    \/ RemoveUser
    \/ RemoveGroup
    \/ UserAddGroup
    \/ GroupAddGroup
    \/ LoadFromJson
    \/ IsValid

SpecUGs == InitUGs /\ [][NextUGs]_vars

(***************************************************************************)
(* SpecJson: y = UsersAndGroups(); y.load_from_json(x.to_json()) for the   *)
(* containers x a caller builds.  passed is x, call.ret the JSON, ugs is y *)
(* once loaded.                                                            *)
(***************************************************************************)
\* The users and groups a caller constructs: with and without groups, with
\* each visibility (None, as create_from_json passes it for a missing key),
\* with a name and with a name that strips to nothing.
JsonVisibilities == {DEFAULT, NON_SHAREABLE, Null}

JsonUsers ==
    {User_init(n, pw, Null, gs, v) :
        n \in {"U2", " "}, pw \in {"", "pw"}, gs \in {<<>>, << "G1" >>},
        v \in JsonVisibilities}

JsonGroups ==
    {Group_init("G1", Null, gs, v, <<>>) : gs \in {<<>>, << "G2" >>}, v \in {DEFAULT, Null}}
    \cup {Group_init("G2", "Group 2", <<>>, NON_SHAREABLE, << P1 >>),
          Group_init("", Null, <<>>, DEFAULT, <<>>)}

\* The containers: at most one user, and the groups in either order.
JsonContainers ==
    {MakeUGs(users, groups) :
        users \in {<<>>} \cup {<< u >> : u \in JsonUsers},
        groups \in {<<>>} \cup {<< g >> : g \in JsonGroups}
                   \cup {<< g, h >> : g \in JsonGroups, h \in JsonGroups}}

\* x.to_json()
ToJson ==
    /\ pc = "ready"
    /\ entry = "json"
    /\ pc' = "dumped"
    /\ call' = Call("to_json", None, default_duplicate, FALSE, "", "", to_json(ugs))
    /\ UNCHANGED << ugs, passed, remote, remotePrivs, remotePrivs0, before, args, entry,
                    err, cookies, privCookies, log, priv_calls, printed, all_users,
                    ug_batch, group_names, idx, pw_users >>

\* y = UsersAndGroups(); y.load_from_json(json)
LoadJson ==
    /\ pc = "dumped"
    /\ LET r == load_from_json(EmptyUGs, call.ret, 1)
       IN  /\ ugs' = r.ugs
           /\ err' = r.err
    /\ before' = EmptyUGs
    /\ pc' = "loaded"
    /\ UNCHANGED << passed, remote, remotePrivs, remotePrivs0, call, args, entry,
                    cookies, privCookies, log, priv_calls, printed, all_users,
                    ug_batch, group_names, idx, pw_users >>

InitJson ==
    Started("json", "ready", JsonContainers,
            {EmptyUGs}, {RemoteNone}, {a \in PrivArgs : ~a.apply_changes}, {FALSE})

NextJson ==
    \/ ToJson
    \/ LoadJson

SpecJson == InitJson /\ [][NextJson]_vars

(***************************************************************************)
(* What the properties below speak of.                                     *)
(***************************************************************************)
\* The requests of the log with operation op, in order.
RECURSIVE ReqsOf(_, _, _)
ReqsOf(l, ops, i) ==
    IF i > Len(l) THEN <<>>
    ELSE (IF l[i].op \in ops THEN << l[i] >> ELSE <<>>) \o ReqsOf(l, ops, i + 1)

SyncReqs == ReqsOf(log, {"sync"}, 1)

PrivilegeOps == {"remove_privilege", "add_privilege"}

\* The stage of sync_users_and_groups a request belongs to (0: a login,
\* which api_call sends wherever the instance is not yet authenticated).
Stage(op) ==
    CASE op = "get_all" -> 1
      [] op = "sync" -> 2
      [] op \in PrivilegeOps -> 3
      [] op = "update_password" -> 4
      [] OTHER -> 0

\* The reconciliation is over: the call is past the fetch.
PastFetch == pc \notin {"start", "fetch"}

\* Every answer of the remote side so far was a success.
TransportOk == \A i \in 1..Len(log) : log[i].res = "ok"

\* The batch loop has ended, by running out of users or by an exception
\* of its own (the validity check or the building of the batch).
BatchLoopEnded ==
    \/ pc \in {"privileges", "priv_remove", "priv_add", "passwords", "pw_loop", "done"}
    \/ pc = "raised" /\ err \in {"invalid", "AttributeError", "Duplicate user"}

\* ceil(n / b) for b > 0
CeilDiv(n, b) == (n + b - 1) \div b

\* The group names reachable from the names in S through the groupNames of
\* the groups c defines.
RECURSIVE ReachableGroups(_, _)
ReachableGroups(c, S) ==
    LET T == S \cup UNION {Range(get_group(c, g).groupNames) :
                              g \in {x \in S : has_group(c, x)}}
    IN  IF T = S THEN S ELSE ReachableGroups(c, T)

\* The group names the users of container b name.
ReferencedGroups(b) == UNION {Range(b.users[i].val.groupNames) : i \in 1..Len(b.users)}

\* The keys of a dict.
Keys(d) == {d[i].key : i \in 1..Len(d)}

(***************************************************************************)
(* C1.  A call of sync_users_and_groups with remove_deleted true and       *)
(* batch_size > 0 fails with the configuration error before any request    *)
(* is sent (no login, get-all, sync, privilege or password request) and    *)
(* leaves the passed container as it was, whatever the other flags are.    *)
(***************************************************************************)
C1_GuardFailsFast ==
    (entry = "sync" /\ args.remove_deleted /\ args.batch_size > 0) =>
        /\ log = <<>>
        /\ priv_calls = <<>>
        /\ ugs = passed
        /\ pc \in {"start", "raised"}
        /\ (pc = "raised" => err = "config")

\* The guard has rejected a call that asked for everything else as well,
\* on an instance that would have had to log in.
C1_Witness ==
    /\ pc = "raised" /\ err = "config"
    /\ args.remove_deleted /\ args.batch_size > 0
    /\ args.create_groups /\ args.set_group_privileges /\ args.update_passwords
    /\ ~cookies
    /\ number_users(passed) > 0

(***************************************************************************)
(* C2.  Once the reconciliation is over, a container that fails is_valid   *)
(* has no sync request sent for it, whole or in batches.                   *)
(* The batch loop breaks this: it checks each batch alone, so the batches  *)
(* before the first invalid one are sent.                                  *)
(***************************************************************************)
C2_NoSyncOfInvalidContainer ==
    (entry = "sync" /\ PastFetch /\ ~is_valid(ugs).result) => SyncReqs = <<>>

(***************************************************************************)
(* C3.  The requests of one call come in stage order: get-all (sent if and *)
(* only if create_groups or merge_groups is set, once the call is past the *)
(* guard and its login), then the sync requests, then the privilege        *)
(* requests (only with set_group_privileges), then the password updates;   *)
(* no request of an earlier stage follows one of a later stage.            *)
(***************************************************************************)
C3_StageOrder ==
    entry = "sync" =>
        /\ LET stage == [i \in 1..Len(log) |-> Stage(log[i].op)]
           IN  \A i \in 1..Len(log) :
                  stage[i] > 0 =>
                      \A j \in (i + 1)..Len(log) : stage[j] > 0 => stage[i] <= stage[j]
        /\ (\E i \in 1..Len(log) : log[i].op = "get_all")
              => (args.create_groups \/ args.merge_groups)
        /\ ( /\ args.create_groups \/ args.merge_groups
             /\ PastFetch
             /\ ~(pc = "raised" /\ err \in {"config", "login"}) )
              => Len(ReqsOf(log, {"get_all"}, 1)) = 1
        /\ (\E i \in 1..Len(log) : log[i].op \in PrivilegeOps)
              => args.set_group_privileges

\* A log that holds a request of each of the four stages.
C3_Witness ==
    /\ entry = "sync"
    /\ \A st \in 1..4 : \E i \in 1..Len(log) : Stage(log[i].op) = st

(***************************************************************************)
(* C4.  With batch_size b > 0, a valid container of n users and a remote   *)
(* side that answers every request with success, the batch loop ends after *)
(* exactly ceil(n/b) sync requests, whose user lists are the consecutive   *)
(* slices of b users of the container's users; with batch_size <= 0 one    *)
(* sync request carries the whole container.                               *)
(* The code breaks this where a user's group has a parent group (C5): the  *)
(* batch lacks the parent, fails the validity check and is never sent.     *)
(***************************************************************************)
C4_BatchCount ==
    (entry = "sync" /\ PastFetch /\ pc # "dispatch" /\ pc # "batch"
        /\ is_valid(ugs).result /\ TransportOk /\ BatchLoopEnded) =>
        LET n == number_users(ugs)
            b == args.batch_size
            names == Names(get_users(ugs))
        IN  IF b > 0
            THEN /\ Len(SyncReqs) = CeilDiv(n, b)
                 /\ \A k \in 1..Len(SyncReqs) :
                      SyncReqs[k].users =
                          SubSeq(names, (k - 1) * b + 1,
                                 IF k * b < n THEN k * b ELSE n)
            ELSE /\ Len(SyncReqs) = 1
                 /\ SyncReqs[1].users = names
                 /\ SyncReqs[1].groups = Names(get_groups(ugs))

(***************************************************************************)
(* C5.  The groups of each batch container are exactly the groups          *)
(* reachable from the batch's users: the groups the users name and the     *)
(* parents of those groups, transitively, and no other group.              *)
(* The code adds only the groups the users name, not their parents.        *)
(***************************************************************************)
C5_BatchGroupsTransitive ==
    (entry = "sync" /\ is_valid(ugs).result /\ number_users(ug_batch) > 0) =>
        Keys(ug_batch.groups) = ReachableGroups(ugs, ReferencedGroups(ug_batch))

(***************************************************************************)
(* The privilege diff as the claims state it.                              *)
(***************************************************************************)
\* a is a prefix of b
IsPrefix(a, b) == Len(a) <= Len(b) /\ SubSeq(b, 1, Len(a)) = a

\* The names of the container's groups, in insertion order, without the
\* protected ones.
ClaimCandidates(c) ==
    SelectSeq(Names(get_groups(c)), LAMBDA g : g \notin {"All", "Administrator"})

\* The groups of C whose desired privileges contain p.
Desiring(c, C, p) ==
    SelectSeq(C, LAMBDA g : p \in Range(get_group(c, g).privileges))

\* One remove per privilege of the list, in list order, each against all of C.
ExpectedRemoves(C) ==
    [k \in 1..Len(PrivilegeList) |->
        [op |-> "remove_privilege", privilege |-> PrivilegeList[k], groups |-> C]]

\* One add per privilege, from the k-th on, that some group of C desires.
RECURSIVE ExpectedAdds(_, _, _)
ExpectedAdds(c, C, k) ==
    IF k > Len(PrivilegeList) THEN <<>>
    ELSE (IF Desiring(c, C, PrivilegeList[k]) # <<>>
          THEN << [op |-> "add_privilege", privilege |-> PrivilegeList[k],
                   groups |-> Desiring(c, C, PrivilegeList[k])] >>
          ELSE <<>>) \o ExpectedAdds(c, C, k + 1)

ExpectedOps(c) ==
    LET C == ClaimCandidates(c)
    IN  IF C = <<>> THEN <<>> ELSE ExpectedRemoves(C) \o ExpectedAdds(c, C, 1)

\* The calls without their results.
Operations(calls) ==
    [i \in 1..Len(calls) |->
        [op |-> calls[i].op, privilege |-> calls[i].privilege, groups |-> calls[i].groups]]

\* _set_group_privileges has returned.
PrivStageDone ==
    \/ entry = "privileges" /\ pc = "done"
    \/ /\ entry = "sync" /\ args.set_group_privileges
       /\ \/ pc \in {"passwords", "pw_loop", "done"}
          \/ pc = "raised" /\ err = "password"

(***************************************************************************)
(* C6.  With apply_changes true and a non-empty candidate list C (the      *)
(* container's groups in insertion order, minus the protected ones), the   *)
(* calls of the privilege diff are exactly: one remove per privilege of    *)
(* the list, in list order, each against all of C; then, per privilege in  *)
(* list order that some candidate desires, one add against exactly the     *)
(* candidates that desire it.  At every moment the calls made so far are   *)
(* the head of that sequence.                                              *)
(***************************************************************************)
C6_PrivilegeCallSequence ==
    (args.apply_changes /\ ClaimCandidates(ugs) # <<>>) =>
        /\ IsPrefix(Operations(priv_calls), ExpectedOps(ugs))
        /\ (PrivStageDone => Operations(priv_calls) = ExpectedOps(ugs))

\* A finished diff with an add against only some of the candidates and a
\* privilege that got no add.
C6_Witness ==
    /\ PrivStageDone /\ args.apply_changes
    /\ Len(priv_calls) < 2 * Len(PrivilegeList)
    /\ \E i \in 1..Len(priv_calls) :
          /\ priv_calls[i].op = "add_privilege"
          /\ Len(priv_calls[i].groups) < Len(group_names)

(***************************************************************************)
(* C7.  All and Administrator are in the group list of no remove or add    *)
(* call and of no privilege request; for a container that holds only       *)
(* protected groups, or none, no privilege call is made and the            *)
(* privilege API sends nothing.                                            *)
(***************************************************************************)
C7_SystemGroupsUntouched ==
    /\ \A i \in 1..Len(priv_calls) :
          Range(priv_calls[i].groups) \cap {"All", "Administrator"} = {}
    /\ \A i \in 1..Len(log) :
          log[i].op \in PrivilegeOps
              => Range(log[i].groups) \cap {"All", "Administrator"} = {}
    /\ (Keys(ugs.groups) \subseteq {"All", "Administrator"})
          => /\ priv_calls = <<>>
             /\ \A i \in 1..Len(log) : log[i].api # "priv"

\* A finished diff, with calls, over a container that holds both protected
\* groups and another group.
C7_Witness ==
    /\ PrivStageDone /\ args.apply_changes
    /\ {"All", "Administrator"} \subseteq Keys(ugs.groups)
    /\ \E i \in 1..Len(priv_calls) :
          priv_calls[i].op = "add_privilege" /\ priv_calls[i].res = "ok"

(***************************************************************************)
(* C8.  When the diff has made its calls (apply_changes), every call       *)
(* succeeded and every desired privilege is in the privilege list, then    *)
(* after the diff the remote privileges of every non-protected group of    *)
(* the container, within the list, are the group's desired privileges,     *)
(* whatever they were before; those of the protected groups and of the     *)
(* groups outside the container are what they were.                        *)
(***************************************************************************)
C8_RemoteEqualsDesired ==
    ( /\ PrivStageDone /\ args.apply_changes
      /\ \A i \in 1..Len(priv_calls) : priv_calls[i].res = "ok"
      /\ \A i \in 1..Len(ugs.groups) :
            Range(ugs.groups[i].val.privileges) \subseteq Range(PrivilegeList) )
    => \A g \in GroupUniverse :
          IF has_group(ugs, g) /\ g \notin {"All", "Administrator"}
          THEN remotePrivs[g] \cap Range(PrivilegeList)
                  = Range(get_group(ugs, g).privileges)
          ELSE remotePrivs[g] = remotePrivs0[g]

\* A finished diff, all calls successful, that changed a group's remote
\* privileges and left a protected group of the container, which wants
\* other privileges than it has, alone.
C8_Witness ==
    /\ PrivStageDone /\ args.apply_changes
    /\ priv_calls # <<>>
    /\ \A i \in 1..Len(priv_calls) : priv_calls[i].res = "ok"
    /\ \A i \in 1..Len(ugs.groups) :
          Range(ugs.groups[i].val.privileges) \subseteq Range(PrivilegeList)
    /\ \E g \in Keys(ugs.groups) : remotePrivs[g] # remotePrivs0[g]
    /\ has_group(ugs, "All")
    /\ Range(get_group(ugs, "All").privileges) # remotePrivs0["All"]

(***************************************************************************)
(* C9.  A failed remove or add call is not fatal: the calls the diff makes *)
(* are the same whichever of them fail, and after a privilege call the     *)
(* call of sync_users_and_groups can only be left from the password stage. *)
(***************************************************************************)
C9_PrivilegeFailuresNotFatal ==
    (entry = "sync" /\ args.set_group_privileges /\ args.apply_changes) =>
        LET made == Operations(priv_calls)
            expected == ExpectedOps(ugs)
        IN  /\ IF pc \in {"passwords", "pw_loop", "done"}
               THEN made = expected
               ELSE IsPrefix(made, expected)
            /\ (priv_calls # <<>> /\ pc = "raised" => err = "password")

\* Every privilege call failed, and the password pass has sent an update.
C9_Witness ==
    /\ entry = "sync"
    /\ priv_calls # <<>>
    /\ \A i \in 1..Len(priv_calls) : priv_calls[i].res = "fail"
    /\ \E i \in 1..Len(priv_calls) : priv_calls[i].op = "add_privilege"
    /\ \E i \in 1..Len(log) : log[i].op = "update_password"

(***************************************************************************)
(* C10.  In a dry run (apply_changes false) the privilege diff prints the  *)
(* same remove and add operations as with apply_changes, and makes no      *)
(* remove or add call: the privilege API sends nothing and the remote      *)
(* privileges stay as they were.                                           *)
(***************************************************************************)
C10_DryRunSendsNothing ==
    /\ ~args.apply_changes
          => /\ priv_calls = <<>>
             /\ \A i \in 1..Len(log) : log[i].api # "priv"
             /\ remotePrivs = remotePrivs0
    /\ IsPrefix(printed, ExpectedOps(ugs))
    /\ (PrivStageDone => printed = ExpectedOps(ugs))
    /\ (args.apply_changes => Operations(priv_calls) = printed)

\* A finished dry run that printed removes and an add.
C10_Witness ==
    /\ PrivStageDone /\ ~args.apply_changes
    /\ \E i \in 1..Len(printed) : printed[i].op = "add_privilege"

(***************************************************************************)
(* The password pass and the transport failures.                           *)
(***************************************************************************)
\* The lowercase of a name.
LowerCase(name) == IF name = "U2" THEN "u2" ELSE name

\* The update-password requests sent so far.
PasswordReqs == ReqsOf(log, {"update_password"}, 1)

\* The users of the container that carry a password.
PasswordUsers == SelectSeq(get_users(ugs), LAMBDA u : u.password # "")

\* The password pass was entered and the call is over.
PasswordPassOver ==
    /\ entry = "sync" /\ args.update_passwords /\ args.apply_changes
    /\ \/ pc = "done"
       \/ pc = "raised" /\ err = "password"

(***************************************************************************)
(* C11.  When the password pass is over, every user of the container that  *)
(* carries a non-empty password has had an update attempt, whatever the    *)
(* earlier updates answered: neither "password unchanged" nor any other    *)
(* failure of one user's update keeps the later users from their attempt.  *)
(***************************************************************************)
C11_EveryPasswordUserAttempted ==
    PasswordPassOver =>
        \A i \in 1..Len(PasswordUsers) :
            \E j \in 1..Len(PasswordReqs) :
                PasswordReqs[j].users = << PasswordUsers[i].name >>

(***************************************************************************)
(* C12.  An update-password request is sent only with update_passwords and *)
(* apply_changes both set, only for a user of the container whose password *)
(* is not empty, and at most once per user in one call.                    *)
(***************************************************************************)
C12_PasswordCallsGuarded ==
    entry = "sync" =>
        \A i \in 1..Len(log) :
            log[i].op = "update_password" =>
                /\ args.update_passwords /\ args.apply_changes
                /\ \E k \in 1..Len(ugs.users) :
                      /\ ugs.users[k].val.password # ""
                      /\ log[i].users = << ugs.users[k].val.name >>
                /\ \A j \in 1..Len(log) :
                      ( /\ log[j].op = "update_password"
                        /\ LowerCase(log[j].users[1]) = LowerCase(log[i].users[1]) )
                          => j = i

\* A finished call that updated two users and passed over a user that has
\* no password.
C12_Witness ==
    /\ entry = "sync" /\ pc = "done"
    /\ Len(PasswordReqs) = 2
    /\ \E i \in 1..Len(ugs.users) : ugs.users[i].val.password = ""

(***************************************************************************)
(* C13.  A failed get-all or sync request is fatal and is the last thing   *)
(* the call does: after a failed get-all the container is as it was passed *)
(* and no sync, privilege or password request or call was made; after a    *)
(* failed sync request (whole or batch) nothing more is sent, so no later  *)
(* batch, no retry, no privilege and no password call; the call has raised *)
(* with that failure.                                                      *)
(***************************************************************************)
C13_TransportFailuresFatal ==
    entry = "sync" =>
        \A i \in 1..Len(log) :
            /\ (log[i].op = "get_all" /\ log[i].res = "fail")
                  => /\ i = Len(log)
                     /\ pc = "raised" /\ err = "get_all"
                     /\ ugs = passed
                     /\ priv_calls = <<>> /\ printed = <<>>
                     /\ \A j \in 1..Len(log) :
                           log[j].op \notin {"sync", "update_password"} \cup PrivilegeOps
            /\ (log[i].op = "sync" /\ log[i].res = "fail")
                  => /\ i = Len(log)
                     /\ pc = "raised" /\ err = "sync"
                     /\ priv_calls = <<>> /\ printed = <<>>
                     /\ \A j \in 1..Len(log) :
                           log[j].op \notin {"update_password"} \cup PrivilegeOps

\* The second batch failed after the first went through, with a user still
\* to send and the privilege and password stages asked for.
C13_Witness ==
    /\ entry = "sync" /\ pc = "raised" /\ err = "sync"
    /\ Len(SyncReqs) = 2 /\ SyncReqs[1].res = "ok" /\ SyncReqs[2].res = "fail"
    /\ all_users # <<>>
    /\ args.set_group_privileges /\ args.update_passwords /\ args.apply_changes

(***************************************************************************)
(* The container: what the last call found and left.                       *)
(***************************************************************************)
\* The value stored under key k of the mapping d.
Entry(d, k) == d[CHOOSE i \in 1..Len(d) : d[i].key = k].val

\* The mapping of the container c the last call added to.
AddedTo(c) == IF call.name = "add_user" THEN c.users ELSE c.groups

\* The mapping of the container c the last call did not add to.
NotAddedTo(c) == IF call.name = "add_user" THEN c.groups ELSE c.users

\* The key of the entity the last call added.
AddedKey == IF call.name = "add_user" THEN LowerCase(call.ent.name) ELSE call.ent.name

\* The last call added a user or a group whose key the container had.
DuplicateAdd ==
    /\ call.name \in {"add_user", "add_group"}
    /\ \E i \in 1..Len(AddedTo(before)) : AddedTo(before)[i].key = AddedKey

\* No name twice in the list.
NoRepeats(names) ==
    \A i, j \in 1..Len(names) : names[i] = names[j] => i = j

(***************************************************************************)
(* C14.  add_user or add_group of a key the container has, under           *)
(* RAISE_ERROR_ON_DUPLICATE or with no policy given, fails with an error   *)
(* and leaves the container as it was.                                     *)
(***************************************************************************)
C14_RaiseOnDuplicate ==
    (DuplicateAdd /\ (~call.given \/ call.duplicate = RAISE_ERROR_ON_DUPLICATE)) =>
        /\ call.err # ""
        /\ ugs = before

\* A user added with no policy given, under a key whose stored user differs
\* from it.
C14_Witness ==
    /\ DuplicateAdd /\ call.name = "add_user" /\ ~call.given
    /\ call.err # ""
    /\ Entry(before.users, AddedKey) # call.ent

(***************************************************************************)
(* C15.  add_user or add_group of a key the container has, under           *)
(* IGNORE_ON_DUPLICATE, raises nothing and leaves the container as it was: *)
(* the stored entity, its attributes and groupNames, and the number of     *)
(* entries.                                                                *)
(***************************************************************************)
C15_IgnoreOnDuplicate ==
    (DuplicateAdd /\ call.given /\ call.duplicate = IGNORE_ON_DUPLICATE) =>
        /\ call.err = ""
        /\ Entry(AddedTo(ugs), AddedKey) = Entry(AddedTo(before), AddedKey)
        /\ Len(AddedTo(ugs)) = Len(AddedTo(before))
        /\ ugs = before

\* A group ignored whose groupNames differ from the stored group's.
C15_Witness ==
    /\ DuplicateAdd /\ call.name = "add_group"
    /\ call.given /\ call.duplicate = IGNORE_ON_DUPLICATE
    /\ Entry(before.groups, AddedKey).groupNames # call.ent.groupNames

(***************************************************************************)
(* C16.  add_user or add_group of a key the container has, under           *)
(* OVERWRITE_ON_DUPLICATE, stores the new entity under the key: the lookup *)
(* gives the new entity, with its attributes and groupNames only; the      *)
(* number of entries is the same and every other entry is as it was.       *)
(***************************************************************************)
C16_OverwriteOnDuplicate ==
    (DuplicateAdd /\ call.given /\ call.duplicate = OVERWRITE_ON_DUPLICATE) =>
        /\ call.err = ""
        /\ Entry(AddedTo(ugs), AddedKey) = call.ent
        /\ Len(AddedTo(ugs)) = Len(AddedTo(before))
        /\ \A i \in 1..Len(AddedTo(before)) :
              AddedTo(before)[i].key # AddedKey
                  => \E j \in 1..Len(AddedTo(ugs)) : AddedTo(ugs)[j] = AddedTo(before)[i]
        /\ NotAddedTo(ugs) = NotAddedTo(before)

\* A user overwritten by one of another name and other groupNames, with two
\* groups in the container.
C16_Witness ==
    /\ DuplicateAdd /\ call.name = "add_user"
    /\ call.given /\ call.duplicate = OVERWRITE_ON_DUPLICATE
    /\ Entry(before.users, AddedKey).name # call.ent.name
    /\ Entry(before.users, AddedKey).groupNames # call.ent.groupNames
    /\ number_groups(ugs) = 2

(***************************************************************************)
(* C17.  add_user or add_group of a key the container has, under           *)
(* UPDATE_ON_DUPLICATE, unions the group references: the stored entry's    *)
(* groupNames holds every name of the existing entry's groupNames and of   *)
(* the new entity's groupNames, and no other name.                         *)
(***************************************************************************)
C17_UpdateUnionsGroupNames ==
    (DuplicateAdd /\ call.given /\ call.duplicate = UPDATE_ON_DUPLICATE) =>
        /\ call.err = ""
        /\ Range(Entry(AddedTo(ugs), AddedKey).groupNames)
              = Range(Entry(AddedTo(before), AddedKey).groupNames)
                    \cup Range(call.ent.groupNames)

\* A user updated whose groupNames and the stored user's each hold a name
\* the other lacks.
C17_Witness ==
    /\ DuplicateAdd /\ call.name = "add_user"
    /\ call.given /\ call.duplicate = UPDATE_ON_DUPLICATE
    /\ Range(call.ent.groupNames) \ Range(Entry(before.users, AddedKey).groupNames) # {}
    /\ Range(Entry(before.users, AddedKey).groupNames) \ Range(call.ent.groupNames) # {}

(***************************************************************************)
(* C18.  After any sequence of add_user, add_group, remove_user,           *)
(* remove_group and load_from_json, every key of the users mapping is the  *)
(* lowercase name of the user stored under it, every key of the groups     *)
(* mapping is the name of the group stored under it, and no two users      *)
(* share a lowercase name, no two groups a name.                           *)
(***************************************************************************)
C18_KeysAreNames ==
    /\ \A i \in 1..Len(ugs.users) : ugs.users[i].key = LowerCase(ugs.users[i].val.name)
    /\ \A i \in 1..Len(ugs.groups) : ugs.groups[i].key = ugs.groups[i].val.name
    /\ \A i, j \in 1..Len(ugs.users) :
          LowerCase(ugs.users[i].val.name) = LowerCase(ugs.users[j].val.name) => i = j
    /\ \A i, j \in 1..Len(ugs.groups) :
          ugs.groups[i].val.name = ugs.groups[j].val.name => i = j

\* The user U2 is stored, under the key u2, and the user u2 was just added
\* over it or turned away.
C18_Witness ==
    /\ DuplicateAdd /\ call.name = "add_user"
    /\ Entry(before.users, AddedKey).name = "U2"
    /\ call.ent.name = "u2"
    /\ number_groups(ugs) = 2

(***************************************************************************)
(* C19.  groupNames of every stored user and group is an ordered set: no   *)
(* group name is in it twice, after any sequence of the container's and    *)
(* the entities' operations.                                               *)
(***************************************************************************)
C19_GroupNamesNoRepeats ==
    /\ \A i \in 1..Len(ugs.users) : NoRepeats(ugs.users[i].val.groupNames)
    /\ \A i \in 1..Len(ugs.groups) : NoRepeats(ugs.groups[i].val.groupNames)

(***************************************************************************)
(* C20.  is_valid reports every problem: its issues are one per dangling   *)
(* group reference (every occurrence, in a user's or a group's groupNames, *)
(* of a name that is no key of the groups mapping), the users' before the  *)
(* groups'; its result is true exactly when there is no issue; and the     *)
(* container is as it was.                                                 *)
(***************************************************************************)
C20_IsValidReportsAll ==
    call.name = "is_valid" =>
        LET issues == call.ret.issues
            Dangling(kind, d) ==
                {t \in ({kind} \X (1..Len(d)) \X (1..MaxNames)) :
                    /\ t[3] <= Len(d[t[2]].val.groupNames)
                    /\ \A k \in 1..Len(ugs.groups) :
                          ugs.groups[k].key # d[t[2]].val.groupNames[t[3]]}
            All == Dangling("user", ugs.users) \cup Dangling("group", ugs.groups)
            Owner(t) == IF t[1] = "user" THEN ugs.users[t[2]].val
                                         ELSE ugs.groups[t[2]].val
            Same(t, x) == /\ x.kind = t[1] /\ x.who = Owner(t).name
                          /\ x.ref = Owner(t).groupNames[t[3]]
        IN  /\ Len(issues) = Cardinality(All)
            /\ \A t \in All :
                  Cardinality({i \in 1..Len(issues) : Same(t, issues[i])})
                      = Cardinality({u \in All : Same(u, [kind |-> t[1], who |-> Owner(t).name,
                                                         ref |-> Owner(t).groupNames[t[3]]])})
            /\ \A i, j \in 1..Len(issues) :
                  (issues[i].kind = "user" /\ issues[j].kind = "group") => i < j
            /\ call.ret.result = (issues = <<>>)
            /\ ugs = before

\* is_valid on a container in which a user has a dangling reference and a
\* group has the same dangling reference twice.
C20_Witness ==
    /\ call.name = "is_valid"
    /\ Len(call.ret.issues) = 3
    /\ call.ret.issues[1].kind = "user"
    /\ call.ret.issues[2].kind = "group"
    /\ call.ret.issues[2] = call.ret.issues[3]
    /\ ~call.ret.result

(***************************************************************************)
(* The JSON round trip.                                                    *)
(***************************************************************************)
\* name -> [visibility, groupNames] for the users or groups of a dict.
Described(d) ==
    {[name |-> d[i].val.name, visibility |-> d[i].val.visibility,
      groupNames |-> d[i].val.groupNames] : i \in 1..Len(d)}

\* The round trip is over: x was dumped and the JSON loaded into y.
RoundTripDone == entry = "json" /\ pc = "loaded"

\* No user and no group of the container has an empty name.
AllNamed(c) ==
    /\ \A i \in 1..Len(c.users) : c.users[i].val.name # ""
    /\ \A i \in 1..Len(c.groups) : c.groups[i].val.name # ""

\* C21: for every valid container x, loading to_json(x) into an empty
\* container raises nothing and gives the same user names, the same group
\* names, and for each of them the same visibility and the same groupNames.
C21_RoundTrip ==
    (RoundTripDone /\ is_valid(passed).result)
        => /\ err = ""
           /\ Described(ugs.users) = Described(passed.users)
           /\ Described(ugs.groups) = Described(passed.groups)

\* The round trip of the valid containers whose users and groups all have a
\* name does hold.
RoundTripOfNamed ==
    (RoundTripDone /\ is_valid(passed).result /\ AllNamed(passed))
        => /\ err = ""
           /\ Described(ugs.users) = Described(passed.users)
           /\ Described(ugs.groups) = Described(passed.groups)

\* A valid container with a user, a group and a parent group went round.
RoundTripOfNamed_Witness ==
    /\ RoundTripDone /\ is_valid(passed).result /\ AllNamed(passed)
    /\ Len(passed.users) = 1 /\ Len(passed.groups) = 2
    /\ passed.users[1].val.groupNames # <<>>
    /\ \E i \in 1..2 : passed.groups[i].val.groupNames # <<>>
    /\ ugs # passed

(***************************************************************************)
(* load_from_json and the type of a record.                                *)
(***************************************************************************)
\* The record's principalTypeEnum is there and ends in _GROUP or _USER.
Recognized(obj) ==
    /\ "principalTypeEnum" \in DOMAIN obj
    /\ EndsWith(obj["principalTypeEnum"], "_GROUP") \/ EndsWith(obj["principalTypeEnum"], "_USER")

\* What the load gives when the records in `skipped` are left out of it.
LoadedWithout(skipped(_)) ==
    load_from_json(before, SelectSeq(call.ret, LAMBDA obj : ~skipped(obj)), 1)

\* C22: load_from_json adds nothing for a record whose principalTypeEnum is
\* absent or ends in neither _GROUP nor _USER and raises nothing for it: the
\* container and the outcome are those of loading the other records alone.
C22_UnrecognizedTypeSkipped ==
    call.name = "load_from_json"
        => LET r == LoadedWithout(LAMBDA obj : ~Recognized(obj))
           IN  ugs = r.ugs /\ call.err = r.err

\* For a record whose principalTypeEnum is there and ends in neither suffix
\* that is so.
UnknownTypeSkipped ==
    call.name = "load_from_json"
        => LET r == LoadedWithout(LAMBDA obj : "principalTypeEnum" \in DOMAIN obj
                                                /\ ~Recognized(obj))
           IN  ugs = r.ugs /\ call.err = r.err

\* A load skipped a record of an unknown type and added the record after it.
UnknownTypeSkipped_Witness ==
    /\ call.name = "load_from_json"
    /\ \E i \in 1..Len(call.ret) :
          "principalTypeEnum" \in DOMAIN call.ret[i] /\ ~Recognized(call.ret[i])
    /\ call.err = ""
    /\ ugs # before

(***************************************************************************)
(* The reconciliation against the remote side's users and groups.          *)
(***************************************************************************)
\* The call got the remote side's users and groups and reconciled the
\* container against them (or needed neither).
Reconciled ==
    /\ entry = "sync"
    /\ PastFetch
    /\ ~(pc = "raised" /\ err \in {"config", "login", "get_all"})

\* The groups the reconciliation put behind the groups the container had.
AddedGroups == [i \in 1..(Len(ugs.groups) - Len(passed.groups)) |->
                   ugs.groups[Len(passed.groups) + i]]

PlaceholderAdded ==
    /\ Reconciled /\ args.create_groups /\ ~args.merge_groups
    /\ \E i \in 1..Len(AddedGroups) : ~has_group(remote, AddedGroups[i].key)

\* C24: after the merge-groups reconciliation the container has the users
\* it had, in their order; a user the original also has holds its previous
\* groupNames followed by the original user's groupNames, and every name of
\* that list the original defines is defined in the container by the
\* original's definition, whatever the container had under the name; a user
\* the original lacks is unchanged.
C24_MergeGroups ==
    (Reconciled /\ args.merge_groups)
        => /\ Len(ugs.users) = Len(passed.users)
           /\ \A i \in 1..Len(ugs.users) :
                 LET new_user == ugs.users[i].val
                     previous == passed.users[i].val
                     original_user == get_user(remote, previous.name)
                 IN  /\ ugs.users[i].key = passed.users[i].key
                     /\ IF original_user = None
                        THEN new_user = previous
                        ELSE /\ new_user = [previous EXCEPT !.groupNames =
                                               previous.groupNames \o original_user.groupNames]
                             /\ \A n \in Range(new_user.groupNames) :
                                   has_group(remote, n)
                                       => get_group(ugs, n) = get_group(remote, n)

\* A merge gave a user without groups the original's groups and appended
\* them to the groups of another user.
C24_Witness ==
    /\ Reconciled /\ args.merge_groups
    /\ \E i \in 1..Len(ugs.users) :
          /\ passed.users[i].val.groupNames = <<>>
          /\ ugs.users[i].val.groupNames # <<>>
    /\ \E i \in 1..Len(ugs.users) :
          /\ passed.users[i].val.groupNames # <<>>
          /\ Len(ugs.users[i].val.groupNames) > Len(passed.users[i].val.groupNames)

\* A merge replaced a definition the container had.
MergeReplacedDefinition ==
    /\ Reconciled /\ args.merge_groups
    /\ \E i \in 1..Len(passed.groups) :
          /\ has_group(ugs, passed.groups[i].key)
          /\ get_group(ugs, passed.groups[i].key) # passed.groups[i].val

UnchangedAfterFailure ==
    /\ entry = "sync" /\ ~args.create_groups /\ ~args.merge_groups
    /\ args.batch_size > 0 /\ pc = "raised"
    /\ Len(all_users) < Len(ugs.users)

(***************************************************************************)
(* The display name.                                                       *)
(***************************************************************************)
\* C26: a User or Group constructed without a display name has its name as
\* displayName, so the displayName of an entity with a name is never absent
\* or empty.
C26_DisplayNameDefaultsToName ==
    call.name \in {"add_user", "add_group"}
        => /\ call.ent.displayName = call.ent.name
           /\ call.ent.name # "" => call.ent.displayName \notin {Null, ""}

(***************************************************************************)
(* The flags of the sync requests.                                         *)
(***************************************************************************)
\* The JSON text of a flag as the caller gave it.
FlagText(flag) == IF flag THEN "true" ELSE "false"

\* C27: every sync request of one call, the whole one and each batch's,
\* carries the apply_changes and the remove_deleted the caller gave; a dry
\* run sends no applyChanges true, a batched call no removeDeleted true.
C27_SyncFlagsAsGiven ==
    entry = "sync"
        => \A i \in 1..Len(log) :
              log[i].op = "sync"
                  => /\ log[i].applyChanges = FlagText(args.apply_changes)
                     /\ log[i].removeDeleted = FlagText(args.remove_deleted)
                     /\ ~args.apply_changes => log[i].applyChanges # "true"
                     /\ args.batch_size > 0 => log[i].removeDeleted # "true"

\* A batched dry run sent two sync requests.
C27_Witness ==
    /\ entry = "sync" /\ args.batch_size > 0 /\ ~args.apply_changes
    /\ Len(SyncReqs) >= 2

\* A whole sync was sent with removeDeleted true.
WholeSyncRemovesDeleted ==
    /\ entry = "sync" /\ args.batch_size <= 0
    /\ \E i \in 1..Len(log) : log[i].op = "sync" /\ log[i].removeDeleted = "true"

(***************************************************************************)
(* Validity after the reconciliation.                                      *)
(***************************************************************************)
\* The issues of a container that are about a user's group.
UserIssues(c) == SelectSeq(is_valid(c).issues, LAMBDA issue : issue.kind = "user")

\* C28: when the original container is valid and the new one is valid, or
\* has dangling references of users only and create_groups is set, the new
\* container is valid after the reconciliation, also where a group copied
\* from the original has a parent only the original defines.
C28_ReconciliationKeepsValid ==
    ( /\ Reconciled
      /\ args.create_groups \/ args.merge_groups
      /\ is_valid(remote).result
      /\ \/ is_valid(passed).result
         \/ /\ args.create_groups
            /\ UserIssues(passed) = is_valid(passed).issues )
        => is_valid(ugs).result

(***************************************************************************)
(* Validity of the batches.                                                *)
(***************************************************************************)
\* C29: for a valid container and batch_size > 0 every batch container the
\* loop builds is valid, so no batch ends the call with the validation
\* error, also where a user's group has a parent that no user of the batch
\* names.
C29_BatchesValid ==
    (entry = "sync" /\ args.batch_size > 0 /\ Reconciled /\ is_valid(ugs).result)
        => /\ is_valid(ug_batch).result
           /\ ~(pc = "raised" /\ err = "invalid")

(***************************************************************************)
(* api_call and the login.                                                 *)
(***************************************************************************)
\* The requests an instance sent in the step.
SentBy(api) ==
    SelectSeq(SubSeq(log', Len(log) + 1, Len(log')), LAMBDA req : req.api = api)

\* What api_call allows an instance to send in one step, authenticated
\* before it or not.
LoginDiscipline(api, authenticated, authenticatedAfter) ==
    LET sent == SentBy(api)
    IN  /\ authenticated => authenticatedAfter
        /\ sent # <<>> =>
              IF authenticated
              THEN \A i \in 1..Len(sent) : sent[i].op # "login"
              ELSE /\ sent[1].op = "login"
                   /\ \A i \in 2..Len(sent) : sent[i].op # "login"
                   /\ sent[1].res = "fail" => Len(sent) = 1 /\ ~authenticatedAfter
                   /\ sent[1].res = "ok" => authenticatedAfter

\* The failed login of a step left the operation by its exception.
LoginErrorPropagates ==
    /\ \A i \in 1..Len(SentBy("sync")) :
          (SentBy("sync")[i].op = "login" /\ SentBy("sync")[i].res = "fail")
              => pc' = "raised" /\ err' = "login"
    /\ \A i \in 1..Len(SentBy("priv")) :
          (SentBy("priv")[i].op = "login" /\ SentBy("priv")[i].res = "fail")
              => /\ Len(priv_calls') = Len(priv_calls) + 1
                 /\ priv_calls'[Len(priv_calls')].res = "fail"

\* C30: in every step of an instance's api_call-wrapped operations a request
\* is sent only by an authenticated instance; an instance that is not
\* authenticated sends a login first, and when the login fails it sends
\* nothing else, the error leaves the operation and the instance stays
\* unauthenticated; an instance that is authenticated stays so and sends no
\* login in any later operation.
C30_LoginOnceBeforeRequests ==
    [][ /\ Len(log') >= Len(log)
        /\ SubSeq(log', 1, Len(log)) = log
        /\ LoginDiscipline("sync", cookies, cookies')
        /\ pc # "privileges" => LoginDiscipline("priv", privCookies, privCookies')
        /\ LoginErrorPropagates ]_vars

\* The sync instance logged in once and sent three requests after it; the
\* privilege instance failed a login, sent nothing, and logged in for its
\* next call.
C30_Witness ==
    /\ Len(SelectSeq(log, LAMBDA req : req.api = "sync" /\ req.op = "login")) = 1
    /\ Len(SelectSeq(log, LAMBDA req : req.api = "sync" /\ req.op # "login")) >= 3
    /\ \E i \in 1..Len(log) : \E j \in (i + 1)..Len(log) :
          /\ log[i].api = "priv" /\ log[i].op = "login" /\ log[i].res = "fail"
          /\ log[j].api = "priv" /\ log[j].op = "login" /\ log[j].res = "ok"
          /\ \A k \in (i + 1)..(j - 1) : log[k].api # "priv"
          /\ \E k \in (j + 1)..Len(log) : log[k].api = "priv" /\ log[k].op # "login"
====
